---- MODULE Spec2Model ----
(***************************************************************************)
(* Model of src/main.py: the well classifier (prepare_well_data), the five *)
(* history chart builders and the Streamlit script that wires them.        *)
(*                                                                         *)
(* Conventions                                                             *)
(*  - A table (pandas DataFrame) is a sequence of records, one per row, in *)
(*    row order; the record fields are the columns.                        *)
(*  - Coordinates are integers in units of 0.0001 degree, so the jitter    *)
(*    half-width 0.0003 is Jitter = 3.                                     *)
(*  - Volumes are naturals; NaN stands for a missing value (numpy NaN).    *)
(*  - A text value (Deviation Ind) is a sequence of characters; a character *)
(*    is its one-character string, or "U+XXXX" where it cannot be written. *)
(***************************************************************************)
EXTENDS Integers, Sequences, FiniteSets, TLC

VARIABLES
    welllist_file, prod_file, inj_file,   \* the three uploads (st.sidebar.file_uploader)
    welllist, prod, inj,                  \* the tables handed to prepare_well_data / the builders
    include_unknown, label_mode,          \* the two radio widgets
    prod_wells, inj_wells,                \* the two multiselect widgets
    rand,                                 \* the offsets np.random.uniform returned in the last call
    df_wells,                             \* result of prepare_well_data
    fig,                                  \* result of the last chart builder call
    phase,                                \* "input" until an operation has run, then its name
    display                               \* what the last script run put on the page, in order

vars == <<welllist_file, prod_file, inj_file, welllist, prod, inj,
          include_unknown, label_mode, prod_wells, inj_wells,
          rand, df_wells, fig, phase, display>>

----------------------------------------------------------------------------
(* Bounds of the input families *)

MaxWells == 3        \* rows of the well list (classification family)
MaxUWI == 2          \* distinct well identifiers 1..MaxUWI
MaxDupWells == 2     \* rows of the well list (coordinate family)
MaxRows == 2         \* rows of a production / injection table

(* Program constants *)

Jitter == 3          \* 0.0003 degree, in units of 0.0001 degree
NaN == -1            \* missing value; every real volume is >= 0

----------------------------------------------------------------------------
(* Generic helpers *)

Range(s) == {s[i] : i \in DOMAIN s}

RECURSIVE SeqsUpTo(_, _)
\* all sequences over S of length 0..n
SeqsUpTo(S, n) ==
    IF n = 0 THEN {<<>>}
    ELSE LET shorter == SeqsUpTo(S, n - 1)
         IN  shorter \cup {Append(s, x) : s \in {t \in shorter : Len(t) = n - 1}, x \in S}

\* sequences over S without repetition (what a multiselect can return)
Selections(S) == {s \in SeqsUpTo(S, Cardinality(S)) :
                    \A i, j \in DOMAIN s : i # j => s[i] # s[j]}

RECURSIVE Filter(_, _)
\* rows of table t whose index satisfies keep, in row order (boolean-mask indexing)
Filter(t, keep) ==
    IF t = <<>> THEN <<>>
    ELSE LET n == Len(t)
             front == Filter(SubSeq(t, 1, n - 1), [i \in 1..(n - 1) |-> keep[i]])
         IN  IF keep[n] THEN Append(front, t[n]) ELSE front

Abs(x) == IF x < 0 THEN -x ELSE x

----------------------------------------------------------------------------
(* prepare_well_data *)

\* df["UWI"].isin(other["UWI"])
isin(uwi, other) == \E k \in DOMAIN other : other[k].UWI = uwi

\* variant: the Production pass runs after the Injection pass
Well_Type_ProdLast(uwi, p, i) ==
    LET t1 == "Unknown"
        t2 == IF isin(uwi, i) THEN "Injection" ELSE t1
        t3 == IF isin(uwi, p) THEN "Production" ELSE t2
    IN  t3

Well_Type(uwi, p, i) ==
    LET t1 == "Unknown"
        t2 == IF isin(uwi, p) THEN "Production" ELSE t1
        t3 == IF isin(uwi, i) THEN "Injection" ELSE t2
    IN  t3

\* the characters str.strip() removes (those for which str.isspace() holds)
Whitespace ==
    {" ", "\t", "\n", "\r", "\f", "U+000B", "U+001C", "U+001D", "U+001E", "U+001F",
     "U+0085", "U+00A0", "U+1680", "U+2000", "U+2001", "U+2002", "U+2003", "U+2004",
     "U+2005", "U+2006", "U+2007", "U+2008", "U+2009", "U+200A", "U+2028", "U+2029",
     "U+202F", "U+205F", "U+3000"}

\* the characters c for which c.upper() begins with "H": H, h and U+1E96
\* (h with line below, whose upper case is H followed by U+0331); the upper
\* case of every other character begins with another character
UpperBeginsH == {"H", "h", "U+1E96"}

\* s.upper().startswith("H"): upper() maps a string character by character,
\* in order, each to a non-empty string, so only the first character decides
upper_startswith_H(s) == s # <<>> /\ s[1] \in UpperBeginsH

RECURSIVE lstrip(_)
lstrip(s) == IF s # <<>> /\ s[1] \in Whitespace THEN lstrip(Tail(s)) ELSE s

RECURSIVE rstrip(_)
rstrip(s) == IF s # <<>> /\ s[Len(s)] \in Whitespace THEN rstrip(SubSeq(s, 1, Len(s) - 1)) ELSE s

\* str.strip()
strip(s) == rstrip(lstrip(s))

\* "Horizontal" if str(x).strip().upper().startswith("H") else "Vertical"
Deviation_Type(row) ==
    IF "Deviation_Ind" \notin DOMAIN row THEN "Unknown"
    ELSE IF upper_startswith_H(strip(row.Deviation_Ind)) THEN "Horizontal"
    ELSE "Vertical"

\* variant: df.duplicated(subset=["plot_lon"], keep=False)
dup_mask_LonOnly(wl) ==
    [i \in DOMAIN wl |->
        \E j \in DOMAIN wl : j # i /\ wl[j].Longitude = wl[i].Longitude]

\* df.duplicated(subset=["plot_lon", "plot_lat"], keep=False)
dup_mask(wl) ==
    [i \in DOMAIN wl |->
        \E j \in DOMAIN wl : /\ j # i
                             /\ wl[j].Longitude = wl[i].Longitude
                             /\ wl[j].Latitude = wl[i].Latitude]

\* dup_mask.sum()
dup_count(wl) == Cardinality({i \in DOMAIN wl : dup_mask(wl)[i]})

\* position of row i among the masked rows: the index into the drawn array
dup_rank(wl, i) == Cardinality({j \in 1..i : dup_mask(wl)[j]})

\* variant: a wider interval
Offsets_Wide == (-Jitter - 1)..(Jitter + 1)

\* the arrays np.random.uniform(-0.0003, 0.0003, size=n) can return
Offsets == (-Jitter)..Jitter

Draws(n) == [lon : [1..n -> Offsets], lat : [1..n -> Offsets]]

\* variant: Well_ID = range(len(df))
PrepareRow_ZeroBased(wl, p, i, r, k) ==
    LET row == wl[k]
        dx == IF dup_mask(wl)[k] THEN r.lon[dup_rank(wl, k)] ELSE 0
        dy == IF dup_mask(wl)[k] THEN r.lat[dup_rank(wl, k)] ELSE 0
    IN  [UWI |-> row.UWI,
         Longitude |-> row.Longitude,
         Latitude |-> row.Latitude,
         Well_Type |-> Well_Type(row.UWI, p, i),
         Deviation_Type |-> Deviation_Type(row),
         Well_ID |-> k - 1,
         plot_lon |-> row.Longitude + dx,
         plot_lat |-> row.Latitude + dy]

PrepareRow(wl, p, i, r, k) ==
    LET row == wl[k]
        dx == IF dup_mask(wl)[k] THEN r.lon[dup_rank(wl, k)] ELSE 0
        dy == IF dup_mask(wl)[k] THEN r.lat[dup_rank(wl, k)] ELSE 0
    IN  [UWI |-> row.UWI,
         Longitude |-> row.Longitude,
         Latitude |-> row.Latitude,
         Well_Type |-> Well_Type(row.UWI, p, i),
         Deviation_Type |-> Deviation_Type(row),
         Well_ID |-> k,
         plot_lon |-> row.Longitude + dx,
         plot_lat |-> row.Latitude + dy]

\* variant: Well_ID assigned after the Unknown rows are dropped
prepare_well_data_Renumber(wl, p, i, inc, r) ==
    LET df == [k \in DOMAIN wl |-> PrepareRow(wl, p, i, r, k)]
        kept == IF inc THEN df
                ELSE Filter(df, [k \in DOMAIN df |-> df[k].Well_Type # "Unknown"])
    IN  [k \in DOMAIN kept |-> [kept[k] EXCEPT !.Well_ID = k]]

prepare_well_data(wl, p, i, inc, r) ==
    LET df == [k \in DOMAIN wl |-> PrepareRow(wl, p, i, r, k)]
    IN  IF inc THEN df
        ELSE Filter(df, [k \in DOMAIN df |-> df[k].Well_Type # "Unknown"])

----------------------------------------------------------------------------
(* History chart builders *)

\* a > b as Python evaluates it on floats: every comparison with NaN is False
Gt(a, b) == a # NaN /\ b # NaN /\ a > b

\* the builtin max(a, b): keeps a unless b > a
PyMax(a, b) == IF Gt(b, a) THEN b ELSE a

\* Series.max(): the largest non-missing value, NaN when there is none
SeriesMax(s) ==
    LET present == {i \in DOMAIN s : s[i] # NaN}
    IN  IF present = {} THEN NaN
        ELSE s[CHOOSE i \in present : \A j \in present : s[i] >= s[j]]

\* df[col] as a sequence
Column(df, col) == [k \in DOMAIN df |-> df[k][col]]

\* df[df["UWI"] == well]
RowsOf(df, well) == Filter(df, [k \in DOMAIN df |-> df[k].UWI = well])

\* df[df["UWI"].isin(wells)]
RowsIn(df, wells) == Filter(df, [k \in DOMAIN df |-> df[k].UWI \in Range(wells)])

\* pd.to_datetime(..., errors="coerce"): a raw date that does not parse becomes NaT.
\* Raw dates are naturals; 0 stands for text that is not a date.
NaT == -1
to_datetime(s) == [k \in DOMAIN s |-> IF s[k] >= 1 THEN s[k] ELSE NaT]

Trace(type, data, col, label, well, yaxis, mode, color, opacity) ==
    [type |-> type,
     x |-> to_datetime(Column(data, "Date")),
     y |-> Column(data, col),
     name |-> <<label, well>>,
     yaxis |-> yaxis,
     mode |-> mode,
     color |-> color,
     opacity |-> opacity]                 \* in tenths: 10 is opaque, 5 is opacity=0.5

\* the color of the k-th trace of a loop whose first trace is highlighted
FirstOnly(color) == [k \in Nat |-> IF k = 1 THEN color ELSE "auto"]
NoHighlight == [k \in Nat |-> "auto"]

\* one loop over the selected wells: one trace per well, in selection order
TracesOf(wells, type, df, col, label, yaxis, mode, color) ==
    [k \in DOMAIN wells |->
        Trace(type, RowsOf(df, wells[k]), col, label, wells[k], yaxis, mode, color[k], 10)]

Figure(traces, title, max_val, ytitle, y2title, barmode) ==
    [traces |-> traces,
     title |-> title,
     yaxis |-> [title |-> ytitle, range |-> <<0, max_val>>],
     yaxis2 |-> [title |-> y2title, range |-> <<0, max_val>>],
     barmode |-> barmode]

\* max_val of the three injection-comparison builders
InjProdMax(prod_df, inj_df, pw, iw, col) ==
    LET m0 == 0
        m1 == IF pw # <<>> THEN PyMax(m0, SeriesMax(Column(RowsIn(prod_df, pw), col))) ELSE m0
        m2 == IF iw # <<>> THEN PyMax(m1, SeriesMax(Column(RowsIn(inj_df, iw), "Water_Inj_M3"))) ELSE m1
    IN  m2

\* max_val of the two production-only builders
ProdProdMax(prod_df, pw, col) ==
    IF pw # <<>>
    THEN PyMax(SeriesMax(Column(RowsIn(prod_df, pw), col)),
               SeriesMax(Column(RowsIn(prod_df, pw), "Water_M3")))
    ELSE 0

\* the water injection lines of the three injection-comparison builders
InjLines(inj_df, iw, color) ==
    TracesOf(iw, "Scatter", inj_df, "Water_Inj_M3", "Water Injection into Well ",
             "y", "lines+markers", color)

\* variant: the injection loop runs before the production loop
plot_water_inj_prod_InjFirst(prod_df, inj_df, pw, iw) ==
    Figure(InjLines(inj_df, iw, NoHighlight)
           \o TracesOf(pw, "Bar", prod_df, "Water_M3", "Water Production from well ",
                       "y2", "", NoHighlight),
           "Water Injection vs Water Production History",
           InjProdMax(prod_df, inj_df, pw, iw, "Water_M3"),
           "Water Injection M3", "Water Production M3", "overlay")

plot_water_inj_prod(prod_df, inj_df, pw, iw) ==
    Figure(TracesOf(pw, "Bar", prod_df, "Water_M3", "Water Production from well ",
                    "y2", "", NoHighlight)
           \o InjLines(inj_df, iw, NoHighlight),
           "Water Injection vs Water Production History",
           InjProdMax(prod_df, inj_df, pw, iw, "Water_M3"),
           "Water Injection M3", "Water Production M3", "overlay")

plot_oil_inj_prod(prod_df, inj_df, pw, iw) ==
    Figure(TracesOf(pw, "Scatter", prod_df, "Oil_M3", "Oil Production from well ",
                    "y2", "lines+markers", FirstOnly("brown"))
           \o InjLines(inj_df, iw, FirstOnly("blue")),
           "Water Injection vs Oil Production History",
           InjProdMax(prod_df, inj_df, pw, iw, "Oil_M3"),
           "Water Injection M3", "Oil Production M3", "")

plot_gas_inj_prod(prod_df, inj_df, pw, iw) ==
    Figure(TracesOf(pw, "Bar", prod_df, "Gas_E3M3", "Gas Production from well ",
                    "y2", "", FirstOnly("green"))
           \o InjLines(inj_df, iw, NoHighlight),
           "Water Injection vs Gas Production History",
           InjProdMax(prod_df, inj_df, pw, iw, "Gas_E3M3"),
           "Water Injection M3", "Gas Production M3", "overlay")

\* the loop of the two production-only builders: per well the line of column
\* col on y1, then the half-transparent water bar on y2
PairTraces(wells, df, col, label, color) ==
    [n \in 1..(2 * Len(wells)) |->
        LET k == (n + 1) \div 2
            data == RowsOf(df, wells[k])
        IN  IF n % 2 = 1
            THEN Trace("Scatter", data, col, label, wells[k], "y1", "lines+markers", color[k], 10)
            ELSE Trace("Bar", data, "Water_M3", "Water Production ", wells[k], "y2", "", "auto", 5)]

\* variant: the first well is brown, as in plot_oil_inj_prod
plot_oil_water_prod_FirstBrown(prod_df, pw) ==
    Figure(PairTraces(pw, prod_df, "Oil_M3", "Oil Production ", FirstOnly("brown")),
           "Oil vs Water Production History",
           ProdProdMax(prod_df, pw, "Oil_M3"),
           "Oil Production M3", "Water Production M3", "overlay")

plot_oil_water_prod(prod_df, pw) ==
    Figure(PairTraces(pw, prod_df, "Oil_M3", "Oil Production ",
                      [k \in Nat |-> IF Len(pw) = 1 THEN "brown" ELSE "auto"]),
           "Oil vs Water Production History",
           ProdProdMax(prod_df, pw, "Oil_M3"),
           "Oil Production M3", "Water Production M3", "overlay")

plot_gas_water_prod(prod_df, pw) ==
    Figure(PairTraces(pw, prod_df, "Gas_E3M3", "Gas Production ", FirstOnly("green")),
           "Gas vs Water Production History",
           ProdProdMax(prod_df, pw, "Gas_E3M3"),
           "Gas Production M3", "Water Production M3", "overlay")

----------------------------------------------------------------------------
(* Input tables *)

WellRow(uwi, lon, lat, hasdev, dev) ==
    IF hasdev
    THEN [UWI |-> uwi, Longitude |-> lon, Latitude |-> lat, Deviation_Ind |-> dev]
    ELSE [UWI |-> uwi, Longitude |-> lon, Latitude |-> lat]

ProdRow(uwi, date, oil, water, gas) ==
    [UWI |-> uwi, Date |-> date, Oil_M3 |-> oil, Water_M3 |-> water, Gas_E3M3 |-> gas]

InjRow(uwi, date, winj) ==
    [UWI |-> uwi, Date |-> date, Water_Inj_M3 |-> winj]

\* deviation indicators as they occur in a well list: "H", "\t hz ", "V", ""
DevSamples == << <<"H">>, <<"\t", " ", "h", "z", " ">>, <<"V">>, <<>> >>
DevSample(k) == DevSamples[((k - 1) % Len(DevSamples)) + 1]

RECURSIVE Ascending(_)
\* the members of a set of integers in increasing order: sorted(...)
Ascending(S) ==
    IF S = {} THEN <<>>
    ELSE LET m == CHOOSE x \in S : \A y \in S : x <= y
         IN  <<m>> \o Ascending(S \ {m})

\* the raw Date text of row k: a month number, or 0 (text that is no date) on even rows
RawDate(k) == IF k % 2 = 0 THEN 0 ELSE k

\* a production (injection) table with one row per identifier of S
ProdTableOf(S) == [k \in 1..Cardinality(S) |-> ProdRow(Ascending(S)[k], RawDate(k), 1, 1, 1)]
InjTableOf(S) == [k \in 1..Cardinality(S) |-> InjRow(Ascending(S)[k], RawDate(k), 1)]

\* production tables of at most n rows: a well of W and an <<oil, water, gas>> of M per row
ProdTables(W, M, n) ==
    {[k \in DOMAIN s |-> ProdRow(s[k][1], RawDate(k), s[k][2][1], s[k][2][2], s[k][2][3])] :
        s \in SeqsUpTo(W \X M, n)}

\* injection tables of at most n rows: a well of W and an injected volume of V per row
InjTables(W, V, n) ==
    {[k \in DOMAIN s |-> InjRow(s[k][1], RawDate(k), s[k][2])] : s \in SeqsUpTo(W \X V, n)}

\* identifiers used by the chart inputs; those of OtherWells occur in no table
ChartWells == {100, 200}
OtherWells == {999}

\* <<Oil M3, Water M3, Gas E3M3>> of a production row
Measures == {<<NaN, NaN, NaN>>, <<NaN, 7, NaN>>, <<10, NaN, 4>>, <<20, 5, 8>>, <<3, 30, 2>>}

UWIs == 1..MaxUWI

\* the coordinates of the spec's example, (-80.0, 53.0), and two neighbours
Coords == {<<-800000, 530000>>, <<-800000, 530001>>, <<-799999, 530000>>}

NoFile == [name |-> "", table |-> <<>>, parses |-> FALSE, uploaded |-> FALSE]
NoDraws == [lon |-> <<>>, lat |-> <<>>]
NoFig == [traces |-> <<>>, title |-> "", yaxis |-> [title |-> "", range |-> <<0, 0>>],
          yaxis2 |-> [title |-> "", range |-> <<0, 0>>], barmode |-> ""]

----------------------------------------------------------------------------
(* Specification of prepare_well_data: Init draws its arguments, the action *)
(* calls it with the offsets the random source returns.                     *)

Idle ==
    /\ welllist_file = NoFile /\ prod_file = NoFile /\ inj_file = NoFile
    /\ label_mode = "Visible labels"
    /\ prod_wells = <<>> /\ inj_wells = <<>>
    /\ rand = NoDraws
    /\ df_wells = <<>>
    /\ fig = NoFig
    /\ phase = "input"
    /\ display = <<>>

\* well lists whose rows all have different coordinates; identifiers and tables vary
InitClassify ==
    /\ \E n \in 0..MaxWells : \E uw \in [1..n -> UWIs] : \E hasdev \in BOOLEAN :
          welllist = [k \in 1..n |-> WellRow(uw[k], -800000 + 10 * k, 530000, hasdev, DevSample(k))]
    /\ \E P \in SUBSET UWIs : prod = ProdTableOf(P)
    /\ \E I \in SUBSET UWIs : inj = InjTableOf(I)
    /\ include_unknown \in BOOLEAN
    /\ Idle

\* well lists whose rows may share coordinates
InitCoords ==
    /\ \E n \in 0..MaxDupWells : \E c \in [1..n -> Coords] :
          welllist = [k \in 1..n |-> WellRow(k, c[k][1], c[k][2], TRUE, DevSample(k))]
    /\ prod = ProdTableOf({1})
    /\ inj = InjTableOf({2})
    /\ include_unknown \in BOOLEAN
    /\ Idle

Init == InitClassify \/ InitCoords

PrepareWellData ==
    /\ phase = "input"
    /\ \E r \in Draws(dup_count(welllist)) :
          /\ rand' = r
          /\ df_wells' = prepare_well_data(welllist, prod, inj, include_unknown, r)
    /\ phase' = "prepare_well_data"
    /\ UNCHANGED <<welllist_file, prod_file, inj_file, welllist, prod, inj,
                   include_unknown, label_mode, prod_wells, inj_wells, fig, display>>

Next == PrepareWellData

Spec == Init /\ [][Next]_vars

----------------------------------------------------------------------------
(* Specification of the chart builders: Init draws the tables and the      *)
(* selections, each action calls one builder.                              *)

ChartIdle ==
    /\ welllist_file = NoFile /\ prod_file = NoFile /\ inj_file = NoFile
    /\ welllist = <<>>
    /\ include_unknown = FALSE
    /\ label_mode = "Visible labels"
    /\ rand = NoDraws
    /\ df_wells = <<>>
    /\ fig = NoFig
    /\ phase = "input"
    /\ display = <<>>

\* production detail: any production rows, any selection of up to three identifiers
InitProdOnly ==
    /\ prod \in ProdTables(ChartWells, Measures, MaxRows)
    /\ inj = <<>>
    /\ prod_wells \in Selections(ChartWells \cup OtherWells)
    /\ inj_wells = <<>>
    /\ ChartIdle

\* production against injection: both tables and both selections vary
InitInjCompare ==
    /\ prod \in ProdTables({100}, {<<NaN, NaN, NaN>>, <<20, 5, 8>>}, MaxRows)
    /\ inj \in InjTables(ChartWells, {NaN, 40}, MaxRows)
    /\ prod_wells \in Selections({100} \cup OtherWells)
    /\ inj_wells \in Selections(ChartWells \cup OtherWells)
    /\ ChartIdle

InitChart == InitProdOnly \/ InitInjCompare

Plotted(name, f) ==
    /\ phase = "input"
    /\ fig' = f
    /\ phase' = name
    /\ UNCHANGED <<welllist_file, prod_file, inj_file, welllist, prod, inj, include_unknown,
                   label_mode, prod_wells, inj_wells, rand, df_wells, display>>

PlotWaterInjProd == Plotted("plot_water_inj_prod", plot_water_inj_prod(prod, inj, prod_wells, inj_wells))
PlotOilInjProd == Plotted("plot_oil_inj_prod", plot_oil_inj_prod(prod, inj, prod_wells, inj_wells))
PlotGasInjProd == Plotted("plot_gas_inj_prod", plot_gas_inj_prod(prod, inj, prod_wells, inj_wells))
PlotOilWaterProd == Plotted("plot_oil_water_prod", plot_oil_water_prod(prod, prod_wells))
PlotGasWaterProd == Plotted("plot_gas_water_prod", plot_gas_water_prod(prod, prod_wells))

NextChart ==
    \/ PlotWaterInjProd
    \/ PlotOilInjProd
    \/ PlotGasInjProd
    \/ PlotOilWaterProd
    \/ PlotGasWaterProd

SpecChart == InitChart /\ [][NextChart]_vars

----------------------------------------------------------------------------
(* The Streamlit script (module level of main.py).  One run of the script  *)
(* is one evaluation of Script; the page is the sequence of elements it    *)
(* emits, in emission order.                                               *)

Element(kind, body) == [kind |-> kind, body |-> body]

\* variant: the exception is swallowed without a message
read_csv_file_Silent(file) ==
    IF file.parses
    THEN [isNone |-> FALSE, df |-> file.table, shown |-> <<>>]
    ELSE [isNone |-> TRUE, df |-> <<>>, shown |-> <<>>]

\* read_csv_file: the table, or None after st.error
read_csv_file(file) ==
    IF file.parses
    THEN [isNone |-> FALSE, df |-> file.table, shown |-> <<>>]
    ELSE [isNone |-> TRUE, df |-> <<>>,
          shown |-> <<Element("error", <<"Error reading file ", file.name>>)>>]

color_map(type) ==
    IF type = "Production" THEN "blue" ELSE IF type = "Injection" THEN "red" ELSE "gray"

plot_well_map(df, mode) ==
    [title |-> "Well Location Grid Map",
     points |-> [k \in DOMAIN df |->
                   [x |-> df[k].plot_lon, y |-> df[k].plot_lat,
                    color |-> color_map(df[k].Well_Type),
                    symbol |-> df[k].Deviation_Type,
                    hover |-> IF mode = "Hover tooltips" THEN <<df[k].Well_ID, df[k].UWI>> ELSE <<>>,
                    text |-> IF mode = "Hover tooltips" THEN <<>> ELSE <<df[k].Well_ID>>]],
     textposition |-> IF mode = "Hover tooltips" THEN "" ELSE "top center",
     legend_title |-> "Well Type / Deviation"]

\* df_wells[["UWI", "Well_ID", "Well_Type", "Deviation_Type"]]
MappingTable(df) ==
    [k \in DOMAIN df |-> [UWI |-> df[k].UWI, Well_ID |-> df[k].Well_ID,
                          Well_Type |-> df[k].Well_Type,
                          Deviation_Type |-> df[k].Deviation_Type]]

\* sorted(df["UWI"].unique())
Options(df) == Ascending({df[k].UWI : k \in DOMAIN df})

Chart(f) == <<Element("plotly_chart", f)>>

\* variant: "if inj_wells" in place of "elif inj_wells"
HistoryCharts_If(df_prod, df_inj, pw, iw) ==
    LET both == IF pw # <<>> /\ iw # <<>>
                THEN Chart(plot_water_inj_prod(df_prod, df_inj, pw, iw))
                     \o Chart(plot_gas_inj_prod(df_prod, df_inj, pw, iw))
                     \o Chart(plot_oil_inj_prod(df_prod, df_inj, pw, iw))
                ELSE <<>>
        injonly == IF iw # <<>>
                   THEN Chart(plot_water_inj_prod(df_prod, df_inj, pw, iw))
                   ELSE <<>>
        second == IF pw # <<>>
                  THEN Chart(plot_oil_water_prod(df_prod, pw))
                       \o Chart(plot_gas_water_prod(df_prod, pw))
                  ELSE <<>>
    IN  both \o injonly \o second

\* lines 349-369: the history charts for the two selections
HistoryCharts(df_prod, df_inj, pw, iw) ==
    LET first == IF pw # <<>> /\ iw # <<>>
                 THEN Chart(plot_water_inj_prod(df_prod, df_inj, pw, iw))
                      \o Chart(plot_gas_inj_prod(df_prod, df_inj, pw, iw))
                      \o Chart(plot_oil_inj_prod(df_prod, df_inj, pw, iw))
                 ELSE IF iw # <<>>
                 THEN Chart(plot_water_inj_prod(df_prod, df_inj, pw, iw))
                 ELSE <<>>
        second == IF pw # <<>>
                  THEN Chart(plot_oil_water_prod(df_prod, pw))
                       \o Chart(plot_gas_water_prod(df_prod, pw))
                  ELSE <<>>
    IN  IF pw # <<>> \/ iw # <<>> THEN first \o second ELSE <<>>

AllUploaded(wf, pf, jf) == wf.uploaded /\ pf.uploaded /\ jf.uploaded
AllParsed(wf, pf, jf) == AllUploaded(wf, pf, jf) /\ wf.parses /\ pf.parses /\ jf.parses

\* lines 327-369: the branch taken when the three tables were read
Dashboard(df_welllist, df_prod, df_inj, inc, mode, iw, pw, r) ==
    LET wells == prepare_well_data(df_welllist, df_prod, df_inj, inc, r)
    IN  <<Element("subheader", "Map Display Settings"),
          Element("radio", <<"Include Unknown Well_Type?", IF inc THEN "Yes" ELSE "No">>),
          Element("radio", <<"Label Display Mode", mode>>),
          Element("plotly_chart", plot_well_map(wells, mode)),
          Element("subheader", "Well ID to UWI Mapping"),
          Element("dataframe", MappingTable(wells)),
          Element("subheader", "Select Wells for Plots"),
          Element("multiselect", <<"Select Injection Wells (UWI)", Options(df_inj), iw>>),
          Element("multiselect", <<"Select Production Wells (UWI)", Options(df_prod), pw>>)>>
        \o HistoryCharts(df_prod, df_inj, pw, iw)

\* lines 311-375
Script(wf, pf, jf, inc, mode, iw, pw, r) ==
    <<Element("title", "Production/Injection Analysis")>> \o
    (IF AllUploaded(wf, pf, jf)
     THEN LET df_welllist == read_csv_file(wf)
              df_prod == read_csv_file(pf)
              df_inj == read_csv_file(jf)
          IN  df_welllist.shown \o df_prod.shown \o df_inj.shown \o
              (IF ~df_welllist.isNone /\ ~df_prod.isNone /\ ~df_inj.isNone
               THEN Dashboard(df_welllist.df, df_prod.df, df_inj.df, inc, mode, iw, pw, r)
               ELSE <<>>)
     ELSE <<Element("info", "Please upload all three files to generate the map and plots.")>>)

----------------------------------------------------------------------------
(* Specification of the app: the user changes one input, the script reruns. *)

File(name, table) == [name |-> name, table |-> table, parses |-> TRUE, uploaded |-> TRUE]
BadFile(name) == [name |-> name, table |-> <<>>, parses |-> FALSE, uploaded |-> TRUE]

WelllistCsv ==
    File("welllist.csv",
         <<WellRow(100, -800000, 530000, TRUE, <<" ", "U+1E96", "x">>),
           WellRow(500, -800010, 530000, TRUE, <<"\n", "V", "H">>),
           WellRow(300, -800000, 530010, TRUE, <<"U+00A0", "h">>),
           WellRow(200, -800020, 530020, TRUE, <<>>)>>)

ProdCsv ==
    File("prod.csv",
         <<ProdRow(200, 1, 10, NaN, 4), ProdRow(100, 1, NaN, 7, NaN),
           ProdRow(200, 0, 20, 5, 8), ProdRow(100, 2, NaN, 30, 2)>>)

InjCsv ==
    File("inj.csv",
         <<InjRow(300, 1, 40), InjRow(100, 1, NaN), InjRow(400, 0, 6), InjRow(300, 2, 15)>>)

\* one rerun of the script with the inputs as given; widgets that are not
\* rendered in the run lose their value
Rerun(wf, pf, jf, inc, mode, iw, pw) ==
    LET ok == AllParsed(wf, pf, jf)
        inc1 == IF ok THEN inc ELSE FALSE
        mode1 == IF ok THEN mode ELSE "Visible labels"
        iw1 == IF ok THEN iw ELSE <<>>
        pw1 == IF ok THEN pw ELSE <<>>
    IN  /\ welllist_file' = wf /\ prod_file' = pf /\ inj_file' = jf
        /\ include_unknown' = inc1 /\ label_mode' = mode1
        /\ inj_wells' = iw1 /\ prod_wells' = pw1
        /\ welllist' = IF AllUploaded(wf, pf, jf) THEN read_csv_file(wf).df ELSE <<>>
        /\ prod' = IF AllUploaded(wf, pf, jf) THEN read_csv_file(pf).df ELSE <<>>
        /\ inj' = IF AllUploaded(wf, pf, jf) THEN read_csv_file(jf).df ELSE <<>>
        /\ \E r \in Draws(IF ok THEN dup_count(wf.table) ELSE 0) :
              /\ rand' = r
              /\ df_wells' = IF ok THEN prepare_well_data(wf.table, pf.table, jf.table, inc1, r)
                             ELSE <<>>
              /\ display' = Script(wf, pf, jf, inc1, mode1, iw1, pw1, r)
        /\ fig' = NoFig
        /\ phase' = "script"

InitApp ==
    /\ welllist_file = NoFile /\ prod_file = NoFile /\ inj_file = NoFile
    /\ welllist = <<>> /\ prod = <<>> /\ inj = <<>>
    /\ include_unknown = FALSE
    /\ label_mode = "Visible labels"
    /\ prod_wells = <<>> /\ inj_wells = <<>>
    /\ rand = NoDraws
    /\ df_wells = <<>>
    /\ fig = NoFig
    /\ phase = "script"
    /\ display = Script(NoFile, NoFile, NoFile, FALSE, "Visible labels", <<>>, <<>>, NoDraws)

Rendered == AllParsed(welllist_file, prod_file, inj_file)

UploadWelllist ==
    \E f \in {NoFile, WelllistCsv, BadFile("welllist.csv")} :
        Rerun(f, prod_file, inj_file, include_unknown, label_mode, inj_wells, prod_wells)

UploadProd ==
    \E f \in {NoFile, ProdCsv, BadFile("prod.csv")} :
        Rerun(welllist_file, f, inj_file, include_unknown, label_mode, inj_wells, prod_wells)

UploadInj ==
    \E f \in {NoFile, InjCsv, BadFile("inj.csv")} :
        Rerun(welllist_file, prod_file, f, include_unknown, label_mode, inj_wells, prod_wells)

SetIncludeUnknown ==
    /\ Rendered
    /\ \E b \in BOOLEAN :
        Rerun(welllist_file, prod_file, inj_file, b, label_mode, inj_wells, prod_wells)

SetLabelMode ==
    /\ Rendered
    /\ \E m \in {"Hover tooltips", "Visible labels"} :
        Rerun(welllist_file, prod_file, inj_file, include_unknown, m, inj_wells, prod_wells)

SelectInjWells ==
    /\ Rendered
    /\ \E s \in Selections(Range(Options(inj_file.table))) :
        Rerun(welllist_file, prod_file, inj_file, include_unknown, label_mode, s, prod_wells)

SelectProdWells ==
    /\ Rendered
    /\ \E s \in Selections(Range(Options(prod_file.table))) :
        Rerun(welllist_file, prod_file, inj_file, include_unknown, label_mode, inj_wells, s)

NextApp ==
    \/ UploadWelllist
    \/ UploadProd
    \/ UploadInj
    \/ SetIncludeUnknown
    \/ SetLabelMode
    \/ SelectInjWells
    \/ SelectProdWells

SpecApp == InitApp /\ [][NextApp]_vars

----------------------------------------------------------------------------
(* Properties of prepare_well_data (specification Spec) *)

Prepared == phase = "prepare_well_data"

ProdSet == {prod[k].UWI : k \in DOMAIN prod}
InjSet == {inj[k].UWI : k \in DOMAIN inj}

\* row k of the well list has the coordinates of another row
SharesCoords(k) ==
    \E j \in DOMAIN welllist :
        /\ j # k
        /\ welllist[j].Longitude = welllist[k].Longitude
        /\ welllist[j].Latitude = welllist[k].Latitude

\* C1: with include_unknown = true the result has one row per input row, the
\* k-th carrying Well_ID k, so the Well_ID values are exactly 1..N.
C1_WellIdsDense ==
    (Prepared /\ include_unknown) =>
        /\ Len(df_wells) = Len(welllist)
        /\ {df_wells[k].Well_ID : k \in DOMAIN df_wells} = 1..Len(welllist)
        /\ \A k \in DOMAIN df_wells :
              /\ df_wells[k].Well_ID = k
              /\ df_wells[k].UWI = welllist[k].UWI

C1_Witness ==
    /\ Prepared /\ include_unknown
    /\ Len(welllist) >= 3
    /\ df_wells[3].Well_ID = 3
    /\ \E k \in DOMAIN df_wells : df_wells[k].Well_Type = "Unknown"

\* C2: a well in the injection identifier set is Injection (also when it is in
\* the production set as well); one only in the production set is Production;
\* one in neither is Unknown.
C2_Classification ==
    Prepared =>
        \A k \in DOMAIN df_wells :
            LET u == df_wells[k].UWI
                t == df_wells[k].Well_Type
            IN  /\ (u \in ProdSet /\ u \in InjSet) => t = "Injection"
                /\ (u \in ProdSet /\ u \notin InjSet) => t = "Production"
                /\ (u \notin ProdSet /\ u \in InjSet) => t = "Injection"
                /\ (u \notin ProdSet /\ u \notin InjSet) => t = "Unknown"

C2_Witness ==
    /\ Prepared
    /\ \E k \in DOMAIN df_wells :
          /\ df_wells[k].UWI \in ProdSet \cap InjSet
          /\ df_wells[k].Well_Type = "Injection"
    /\ \E k \in DOMAIN df_wells : df_wells[k].Well_Type = "Production"

\* C3 as claimed: every row that shares its coordinates with another row ends
\* with a plot position different from its source position, whatever is drawn.
C3_Original ==
    Prepared =>
        \A k \in DOMAIN df_wells :
            SharesCoords(df_wells[k].Well_ID) =>
                <<df_wells[k].plot_lon, df_wells[k].plot_lat>>
                    # <<df_wells[k].Longitude, df_wells[k].Latitude>>

\* C3 amended: a row that shares its coordinates gets the source position plus
\* its own drawn offsets, so it leaves the source position exactly when its
\* drawn offset is not (0, 0); a row that shares with none keeps the source position.
C3_JitterAsDrawn ==
    Prepared =>
        \A k \in DOMAIN df_wells :
            LET row == df_wells[k]
                n == Cardinality({j \in 1..row.Well_ID : SharesCoords(j)})
            IN  IF SharesCoords(row.Well_ID)
                THEN /\ row.plot_lon = row.Longitude + rand.lon[n]
                     /\ row.plot_lat = row.Latitude + rand.lat[n]
                     /\ (<<row.plot_lon, row.plot_lat>> # <<row.Longitude, row.Latitude>>)
                            <=> (<<rand.lon[n], rand.lat[n]>> # <<0, 0>>)
                ELSE /\ row.plot_lon = row.Longitude
                     /\ row.plot_lat = row.Latitude

C3_Witness ==
    /\ Prepared
    /\ \E a, b \in DOMAIN df_wells :
          /\ a # b
          /\ SharesCoords(df_wells[a].Well_ID) /\ SharesCoords(df_wells[b].Well_ID)
          /\ <<df_wells[a].plot_lon, df_wells[a].plot_lat>>
                = <<df_wells[a].Longitude, df_wells[a].Latitude>>
          /\ <<df_wells[b].plot_lon, df_wells[b].plot_lat>>
                # <<df_wells[b].Longitude, df_wells[b].Latitude>>

\* C4: with include_unknown = false the result is the input rows whose
\* identifier is in the production or the injection set, in input order, each
\* with the Well_ID of its input position.
C4_FilterKeepsIds ==
    (Prepared /\ ~include_unknown) =>
        LET kept == Ascending({k \in DOMAIN welllist :
                                  welllist[k].UWI \in ProdSet \cup InjSet})
        IN  /\ Len(df_wells) = Len(kept)
            /\ \A j \in DOMAIN df_wells :
                  /\ df_wells[j].Well_ID = kept[j]
                  /\ df_wells[j].UWI = welllist[kept[j]].UWI
                  /\ df_wells[j].Well_Type # "Unknown"

C4_Witness ==
    /\ Prepared /\ ~include_unknown
    /\ Len(df_wells) = 2 /\ Len(welllist) = 3
    /\ df_wells[1].Well_ID = 1 /\ df_wells[2].Well_ID = 3

\* C9 as claimed: two rows with the same coordinates end within 0.0003 of the
\* source on each axis and within 0.0003 of each other on each axis.
C9_Original ==
    Prepared =>
        \A a, b \in DOMAIN df_wells :
            (/\ a # b
             /\ df_wells[a].Longitude = df_wells[b].Longitude
             /\ df_wells[a].Latitude = df_wells[b].Latitude) =>
                /\ Abs(df_wells[a].plot_lon - df_wells[a].Longitude) <= Jitter
                /\ Abs(df_wells[a].plot_lat - df_wells[a].Latitude) <= Jitter
                /\ Abs(df_wells[a].plot_lon - df_wells[b].plot_lon) <= Jitter
                /\ Abs(df_wells[a].plot_lat - df_wells[b].plot_lat) <= Jitter

\* C9 amended: two rows with the same coordinates end within 0.0003 of the
\* source on each axis and within 0.0006 of each other on each axis.
C9_JitterWithinBounds ==
    Prepared =>
        \A a, b \in DOMAIN df_wells :
            (/\ a # b
             /\ df_wells[a].Longitude = df_wells[b].Longitude
             /\ df_wells[a].Latitude = df_wells[b].Latitude) =>
                /\ Abs(df_wells[a].plot_lon - df_wells[a].Longitude) <= Jitter
                /\ Abs(df_wells[a].plot_lat - df_wells[a].Latitude) <= Jitter
                /\ Abs(df_wells[a].plot_lon - df_wells[b].plot_lon) <= 2 * Jitter
                /\ Abs(df_wells[a].plot_lat - df_wells[b].plot_lat) <= 2 * Jitter

C9_Witness ==
    /\ Prepared
    /\ Len(df_wells) >= 2
    /\ df_wells[1].Longitude = df_wells[2].Longitude
    /\ df_wells[1].Latitude = df_wells[2].Latitude
    /\ df_wells[1].plot_lon - df_wells[2].plot_lon = 2 * Jitter
    /\ df_wells[2].plot_lat - df_wells[1].plot_lat = 2 * Jitter

----------------------------------------------------------------------------
(* Properties of the chart builders (specification SpecChart) *)

InjBuilders == {"plot_water_inj_prod", "plot_oil_inj_prod", "plot_gas_inj_prod"}
ProdBuilders == {"plot_oil_water_prod", "plot_gas_water_prod"}

\* the production columns a builder plots
PlottedColumns(builder) ==
    IF builder = "plot_water_inj_prod" THEN {"Water_M3"}
    ELSE IF builder = "plot_oil_inj_prod" THEN {"Oil_M3"}
    ELSE IF builder = "plot_gas_inj_prod" THEN {"Gas_E3M3"}
    ELSE IF builder = "plot_oil_water_prod" THEN {"Oil_M3", "Water_M3"}
    ELSE {"Gas_E3M3", "Water_M3"}

\* the values present in the series of the selected wells that the builder plots
PlottedValues(builder) ==
    ({prod[k][c] : k \in {i \in DOMAIN prod : prod[i].UWI \in Range(prod_wells)},
                   c \in PlottedColumns(builder)}
     \cup (IF builder \in InjBuilders
           THEN {inj[k].Water_Inj_M3 : k \in {i \in DOMAIN inj : inj[i].UWI \in Range(inj_wells)}}
           ELSE {}))
    \ {NaN}

SetMax(S) == CHOOSE m \in S : \A v \in S : m >= v

\* C6 as claimed: whenever the selected wells have any value to plot, both axes
\* get the range [0, M], M the largest of those values.
C6_Original ==
    (phase \in InjBuilders \cup ProdBuilders /\ PlottedValues(phase) # {}) =>
        /\ fig.yaxis.range = <<0, SetMax(PlottedValues(phase))>>
        /\ fig.yaxis2.range = <<0, SetMax(PlottedValues(phase))>>

\* C7: plot_oil_water_prod emits, per selected well in selection order, the
\* oil line on y1 and then the water bar on y2; the oil line is brown exactly
\* when one well is selected.
C7_OilWaterTraces ==
    phase = "plot_oil_water_prod" =>
        /\ Len(fig.traces) = 2 * Len(prod_wells)
        /\ \A k \in DOMAIN prod_wells :
              LET oil == fig.traces[2 * k - 1]
                  water == fig.traces[2 * k]
              IN  /\ oil.type = "Scatter" /\ oil.yaxis = "y1"
                  /\ oil.name = <<"Oil Production ", prod_wells[k]>>
                  /\ water.type = "Bar" /\ water.yaxis = "y2"
                  /\ water.name = <<"Water Production ", prod_wells[k]>>
                  /\ (oil.color = "brown") <=> (Len(prod_wells) = 1)

C7_Witness ==
    /\ phase = "plot_oil_water_prod"
    /\ Len(prod_wells) >= 2
    /\ Len(fig.traces) = 2 * Len(prod_wells)
    /\ fig.traces[1].color # "brown"
    /\ fig.traces[3].y # <<>>

\* the number of rows of table t that belong to a well
RowCount(t, well) == Cardinality({k \in DOMAIN t : t[k].UWI = well})

\* C8: an injection-comparison builder emits one trace per selected production
\* well, in selection order, then one per selected injection well, in selection
\* order; a selected identifier with no row in its table has an empty series.
C8_TraceOrder ==
    phase \in InjBuilders =>
        /\ Len(fig.traces) = Len(prod_wells) + Len(inj_wells)
        /\ \A k \in DOMAIN prod_wells :
              LET t == fig.traces[k]
              IN  /\ t.name[2] = prod_wells[k]
                  /\ t.yaxis = "y2"
                  /\ Len(t.y) = RowCount(prod, prod_wells[k])
                  /\ Len(t.x) = Len(t.y)
        /\ \A j \in DOMAIN inj_wells :
              LET t == fig.traces[Len(prod_wells) + j]
              IN  /\ t.name = <<"Water Injection into Well ", inj_wells[j]>>
                  /\ t.type = "Scatter" /\ t.yaxis = "y"
                  /\ Len(t.y) = RowCount(inj, inj_wells[j])
                  /\ Len(t.x) = Len(t.y)

C8_Witness ==
    /\ phase \in InjBuilders
    /\ Len(prod_wells) = 2 /\ Len(inj_wells) = 3
    /\ inj_wells[1] \in OtherWells
    /\ fig.traces[3].y = <<>>
    /\ fig.traces[4].y # <<>>
    /\ prod_wells[2] \in OtherWells
    /\ fig.traces[2].y = <<>>

----------------------------------------------------------------------------
(* Properties of the script (specification SpecApp) *)

Kinds(k) == {i \in DOMAIN display : display[i].kind = k}

ErrorFor(file) ==
    IF file.parses THEN <<>>
    ELSE <<Element("error", <<"Error reading file ", file.name>>)>>

ParseFailed ==
    /\ AllUploaded(welllist_file, prod_file, inj_file)
    /\ ~AllParsed(welllist_file, prod_file, inj_file)

\* C5 as claimed: when the three files are uploaded and one does not parse,
\* its error is shown, no map, table, selector or chart is shown, and the
\* prompt to upload all three files is shown.
C5_Original ==
    (phase = "script" /\ ParseFailed) =>
        /\ \A f \in {welllist_file, prod_file, inj_file} :
              ~f.parses => \E i \in Kinds("error") : display[i] = ErrorFor(f)[1]
        /\ Kinds("plotly_chart") \cup Kinds("dataframe") \cup Kinds("multiselect") = {}
        /\ Kinds("info") # {}

\* C5 amended: when the three files are uploaded and one does not parse, the
\* page is the title and the error of each failing file, in upload order, and
\* nothing else: no map, table, selector, chart or prompt.  The prompt is
\* shown exactly when one of the three files is not uploaded.
C5_ParseFailure ==
    phase = "script" =>
        /\ ParseFailed =>
              display = <<Element("title", "Production/Injection Analysis")>>
                        \o ErrorFor(welllist_file) \o ErrorFor(prod_file) \o ErrorFor(inj_file)
        /\ (Kinds("info") # {}) <=> ~AllUploaded(welllist_file, prod_file, inj_file)

C5_Witness ==
    /\ phase = "script"
    /\ ParseFailed
    /\ welllist_file.parses /\ ~prod_file.parses /\ ~inj_file.parses
    /\ Len(display) = 3
    /\ display[2].kind = "error" /\ display[3].kind = "error"

\* the titles of the charts on the page, in page order
ChartTitles ==
    LET charts == Filter(display, [i \in DOMAIN display |-> display[i].kind = "plotly_chart"])
    IN  [i \in DOMAIN charts |-> charts[i].body.title]

ExpectedHistory ==
    IF prod_wells # <<>> /\ inj_wells # <<>>
    THEN <<"Water Injection vs Water Production History",
           "Water Injection vs Gas Production History",
           "Water Injection vs Oil Production History",
           "Oil vs Water Production History",
           "Gas vs Water Production History">>
    ELSE IF inj_wells # <<>>
    THEN <<"Water Injection vs Water Production History">>
    ELSE IF prod_wells # <<>>
    THEN <<"Oil vs Water Production History", "Gas vs Water Production History">>
    ELSE <<>>

\* C10: with the three tables read, the charts on the page are the map and
\* then the history charts the two selections call for, in the fixed order;
\* the map and the Well_ID table come before every history chart.
C10_ChartOrder ==
    (phase = "script" /\ AllParsed(welllist_file, prod_file, inj_file)) =>
        /\ ChartTitles = <<"Well Location Grid Map">> \o ExpectedHistory
        /\ Cardinality(Kinds("dataframe")) = 1
        /\ \A m \in Kinds("plotly_chart") : \A t \in Kinds("dataframe") :
              IF display[m].body.title = "Well Location Grid Map" THEN m < t ELSE t < m

C10_Witness ==
    /\ phase = "script"
    /\ AllParsed(welllist_file, prod_file, inj_file)
    /\ Len(prod_wells) = 2 /\ Len(inj_wells) = 2
    /\ Len(ChartTitles) = 6
    /\ ChartTitles[2] = "Water Injection vs Water Production History"
    /\ ChartTitles[6] = "Gas vs Water Production History"

====
